---------------------------- MODULE Spec2Model ----------------------------
(***************************************************************************)
(* A model of pyspec's ImageProcessor (pyspec/ccd/transformations.py):     *)
(* region-of-interest extraction, dark-frame subtraction and monitor       *)
(* normalisation, the pixel -> angle map, the per-image and per-set        *)
(* transformation to (Qx, Qy, Qz, I) points and the gridding of the point  *)
(* cloud onto a cuboid.                                                    *)
(*                                                                         *)
(* Conventions.  Python's None is the empty tuple <<>>.  Python indices    *)
(* are 0-based, TLA+ sequences 1-based: image number imNum is entry        *)
(* imNum + 1 of imFileNames, intentNorm and settingAngles.  A 2-D array is *)
(* a sequence of rows.  A float64 is modelled by a binary floating-point   *)
(* format with the same rules (round to nearest, ties to even, inf and nan *)
(* from a division by zero) and a scaled-down significand of Precision     *)
(* bits; a finite value is counted in units of 2^-FracBits.  Lengths are   *)
(* in micrometres so that the pixel size 0.020 mm is the integer 20.       *)
(***************************************************************************)
EXTENDS Integers, Sequences, FiniteSets, TLC

VARIABLES
    detDis, detPixSizeX, detPixSizeY,   \* detector distance and pixel size
    detSizeX, detSizeY, detX0, detY0,   \* detector size and centre (pixels)
    conRoi, frameMode,                  \* image treatment
    Qmin, Qmax, dQN,                    \* gridder options
    waveLen, imFileNames, darkFileNames,\* set by setBySpec; a file name
    settingAngles, intentNorm,          \*   stands for the frame it holds
    op,                                 \* the method called last
    raised,                             \* the exception it ended in, or "none"
    calls,                              \* image numbers processOneImage got
    totSet,                             \* what the last call returned, when it
                                        \*   was processOneSet or processOneImage
    totData,                            \* the argument of the last call, when it
    gridData, gridOccu, gridOut,        \*   was makeGridData, and what it returned
    supplied                            \* history: did the user ever pass
                                        \*   <<Qmin or Qmax, dQN>> himself

vars == <<detDis, detPixSizeX, detPixSizeY, detSizeX, detSizeY, detX0, detY0,
          conRoi, frameMode, Qmin, Qmax, dQN, waveLen, imFileNames,
          darkFileNames, settingAngles, intentNorm, op, raised, calls,
          totSet, totData, gridData, gridOccu, gridOut, supplied>>

detVars  == <<detDis, detPixSizeX, detPixSizeY, detSizeX, detSizeY, detX0, detY0>>
scanVars == <<waveLen, imFileNames, darkFileNames, settingAngles, intentNorm>>
gridVars == <<Qmin, Qmax, dQN>>
gridOutVars == <<totData, gridData, gridOccu, gridOut>>

None == <<>>

-----------------------------------------------------------------------------
(* Bounds of the model *)

\* bits of the significand of the modelled float (53 in a float64)
Precision == 3
\* a finite float is a multiple of 2^-FracBits
FracBits == 1
\* largest raw count of a detector pixel
MaxCount == 4
\* most exposures in a set
MaxExposures == 2
\* most points of a cloud handed to makeGridData directly
MaxPoints == 3
\* largest binning factor
MaxBin == 3

-----------------------------------------------------------------------------
(* float64 arithmetic *)

RECURSIVE Pow2(_)
Pow2(k) == IF k <= 0 THEN 1 ELSE 2 * Pow2(k - 1)

Abs(n) == IF n < 0 THEN -n ELSE n
Min2(a, b) == IF a < b THEN a ELSE b
Max2(a, b) == IF a > b THEN a ELSE b

F(n)   == <<"fin", n>>
PInf   == <<"inf", 1>>
NInf   == <<"inf", -1>>
NaN    == <<"nan", 0>>
IsFin(a) == a[1] = "fin"
\* the float of an integer (astype(float64) of a raw count)
FromInt(c) == F(c * Pow2(FracBits))

\* the gap between neighbouring floats around num/den (num >= 0, den > 0)
RECURSIVE Spacing(_, _, _)
Spacing(num, den, s) ==
    IF num < den * s * Pow2(Precision) THEN s ELSE Spacing(num, den, 2 * s)

\* the multiple q or q + 1 of the gap d that is nearer to q + r/d, the even
\* one of the two when they are as near
NearestEven(q, r, d) ==
    IF 2 * r > d \/ (2 * r = d /\ q % 2 = 1) THEN q + 1 ELSE q

RoundPos(a, den, s) == NearestEven(a \div (den * s), a % (den * s), den * s) * s

\* num/den (den > 0) rounded to the nearest float, ties to even
RoundRat(num, den) ==
    IF num < 0 THEN -RoundPos(-num, den, Spacing(-num, den, 1))
    ELSE RoundPos(num, den, Spacing(num, den, 1))

FNeg(a) == IF a[1] = "nan" THEN NaN ELSE <<a[1], -a[2]>>

FAdd(a, b) ==
    CASE a[1] = "nan" \/ b[1] = "nan" -> NaN
      [] a[1] = "inf" /\ b[1] = "inf" -> IF a[2] = b[2] THEN a ELSE NaN
      [] a[1] = "inf" -> a
      [] b[1] = "inf" -> b
      [] OTHER -> F(RoundRat(a[2] + b[2], 1))

FSub(a, b) == FAdd(a, FNeg(b))

\* a / m for a monitor count m >= 0; numpy divides by zero without raising
FDiv(a, m) ==
    CASE a[1] = "nan" -> NaN
      [] m = 0 /\ a[2] = 0 -> NaN
      [] m = 0 -> IF a[2] > 0 THEN PInf ELSE NInf
      [] a[1] = "inf" -> a
      [] OTHER -> F(RoundRat(a[2], m))


-----------------------------------------------------------------------------
(* numpy helpers *)

\* np.ravel of a 2-D array: the rows one after the other (row-major)
RavelRows(a, w) == [i \in 1..(Len(a) * w) |-> a[((i - 1) \div w) + 1][((i - 1) % w) + 1]]
ravel(a) == IF Len(a) = 0 THEN <<>> ELSE RavelRows(a, Len(a[1]))

\* s[lo-1 : hi] of Python for 1 <= lo: a slice is cut at the end of s
Slice(s, lo, hi) == SubSeq(s, lo, Min2(hi, Len(s)))

\* frame.astype(float64)
AsFloat(frame) == [r \in 1..Len(frame) |-> [c \in 1..Len(frame[r]) |-> FromInt(frame[r][c])]]

\* array / scalar and array - array, element by element
ArrDiv(a, m) == [r \in 1..Len(a) |-> [c \in 1..Len(a[r]) |-> FDiv(a[r][c], m)]]
ArrSub(a, b) == [r \in 1..Len(a) |-> [c \in 1..Len(a[r]) |-> FSub(a[r][c], b[r][c])]]

-----------------------------------------------------------------------------
(* global help functions *)

\* roi = <<xMin, dx, yMin, dy>> (roi[0..3] of the source are roi[1..4] here)
getAreaSet(image, roi) ==
    LET rows == Slice(image, roi[3], roi[3] + roi[4] - 1)
    IN  [r \in 1..Len(rows) |-> Slice(rows[r], roi[1], roi[1] + roi[2] - 1)]

\* getAreaXY with the fault of matrix indexing: np.meshgrid(xs, ys, indexing = 'ij')
getAreaXYij(roi) ==
    << [r \in 1..roi[2] |-> [c \in 1..roi[4] |-> roi[1] + r - 1]],
       [r \in 1..roi[2] |-> [c \in 1..roi[4] |-> roi[3] + c - 1]] >>

\* getAreaXY with the fault of 0-based coordinates: np.arange(roi[0] - 1, ...)
getAreaXYZeroBased(roi) ==
    << [r \in 1..roi[4] |-> [c \in 1..roi[2] |-> roi[1] + c - 2]],
       [r \in 1..roi[4] |-> [c \in 1..roi[2] |-> roi[3] + r - 2]] >>

\* np.meshgrid(xs, ys): two arrays of shape (len(ys), len(xs))
getAreaXY(roi) ==
    << [r \in 1..roi[4] |-> [c \in 1..roi[2] |-> roi[1] + c - 1]],
       [r \in 1..roi[4] |-> [c \in 1..roi[2] |-> roi[3] + r - 1]] >>

-----------------------------------------------------------------------------
(* ImageProcessor: help function part *)

\* lines 164-165: the region of interest after _readImage(imNum)
ResolveRoi(roi, imNum) ==
    IF roi = None
    THEN <<1, Len(imFileNames[imNum + 1][1]), 1, Len(imFileNames[imNum + 1])>>
    ELSE roi

\* readImage with the fault of dividing the dark frame by the monitor of the
\* image instead of entry 0
readImageOwnMonitor(imNum, roi) ==
    ArrSub(ArrDiv(getAreaSet(AsFloat(imFileNames[imNum + 1]), roi), intentNorm[imNum + 1]),
           ArrDiv(getAreaSet(AsFloat(darkFileNames[1]), roi), intentNorm[imNum + 1]))

\* _readImage(imNum) once conRoi is resolved to roi
readImage(imNum, roi) ==
    LET darkMon  == intentNorm[1]
        darkVal  == AsFloat(darkFileNames[1])
        pointMon == intentNorm[imNum + 1]
        pointVal == AsFloat(imFileNames[imNum + 1])
        conDark  == ArrDiv(getAreaSet(darkVal, roi), darkMon)
        conIm    == ArrSub(ArrDiv(getAreaSet(pointVal, roi), pointMon), conDark)
    IN  conIm

\* An angle ref - arctan(num/den)/pi*180 is kept as <<ref, num, den>>: the
\* argument of the arctan is the exact ratio num/den.  The detector centre
\* x0 = <<n, d>> is the ratio n/d.
PixAngle(ref, p, p0, pixDis) == <<ref, (p * p0[2] - p0[1]) * pixDis, p0[2] * detDis>>

XY2delgam(del0, gam0, roi) ==
    LET conZ  == getAreaXY(roi)
        x     == ravel(conZ[1])
        y     == ravel(conZ[2])
        delta == [i \in 1..Len(y) |-> PixAngle(del0, y[i], detY0, detPixSizeY)]
        gamma == [i \in 1..Len(x) |-> PixAngle(gam0, x[i], detX0, detPixSizeX)]
    IN  <<delta, gamma>>

-----------------------------------------------------------------------------
(* The diffractometer (pyspec.diffractometer) is outside this source: it   *)
(* is the identity geometry that answers Q = (x, y, theta) for the pixel   *)
(* at detector coordinates (x, y) of a detector with the default set-up.   *)

DefaultDetDis  == 300000
DefaultPixSize == 20
DefaultSizeX   == 1300
DefaultSizeY   == 1340

PixOfAngle(a, size) == size \div 2 + ((a[2] \div DefaultPixSize) * DefaultDetDis) \div a[3]

Diffractometer(lambda, delPix, theta, chi, phi, mu, gamPix) ==
    [i \in 1..Len(delPix) |->
        << PixOfAngle(gamPix[i], DefaultSizeX), PixOfAngle(delPix[i], DefaultSizeY), theta >>]

-----------------------------------------------------------------------------
(* ImageProcessor: process part *)

\* ImagePoints with the fault of a final else that falls back to a frame
ImagePointsFallBack(mode, roi, intent, Qxyz) ==
    IF Len(Qxyz) # Len(intent)
    THEN [raised |-> "ValueError", conRoi |-> roi, totIm |-> None]
    ELSE [raised |-> "none", conRoi |-> roi,
          totIm  |-> [i \in 1..Len(intent) |->
                        <<Qxyz[i][1], Qxyz[i][2], Qxyz[i][3], intent[i]>>]]

\* lines 235-252: the points of an image from its intensities and its Q
ImagePoints(mode, roi, intent, Qxyz) ==
    IF mode \notin {1, 2, 3, 4}
    THEN \* the message is printed, Qxyz stays unbound and line 249 raises
         [raised |-> "UnboundLocalError", conRoi |-> roi, totIm |-> None]
    ELSE IF Len(Qxyz) # Len(intent)
    THEN \* totIm[:,:3] = Qxyz cannot broadcast
         [raised |-> "ValueError", conRoi |-> roi, totIm |-> None]
    ELSE [raised |-> "none", conRoi |-> roi,
          totIm  |-> [i \in 1..Len(intent) |->
                        <<Qxyz[i][1], Qxyz[i][2], Qxyz[i][3], intent[i]>>]]

\* lines 230-234: ang is the row <<delta, theta, chi, phi, mu, gamma>>
AnglesToQ(ang, delgam) ==
    Diffractometer(waveLen, delgam[1], ang[2], ang[3], ang[4], ang[5], delgam[2])

PixelQ(ang, roi) == AnglesToQ(ang, XY2delgam(ang[1], ang[6], roi))

ProcessRoi(imNum, roi) ==
    ImagePoints(frameMode, roi, ravel(readImage(imNum, roi)),
                PixelQ(settingAngles[imNum + 1], roi))

\* processOneImage(imNum) on a processor whose conRoi is roi: the exception
\* it ends in, the conRoi it leaves and the array it returns
processOneImage(imNum, roi) == ProcessRoi(imNum, ResolveRoi(roi, imNum))

ZeroRow == <<0, 0, 0, F(0)>>

\* buf[j:k, :] = rows for a buffer of Python (j, k are Python's slice bounds)
SetSlice(buf, j, k, rows) ==
    [n \in 1..Len(buf) |-> IF j < n /\ n <= k THEN rows[n - j] ELSE buf[n]]

RECURSIVE SetLoop(_, _, _, _, _, _, _)
\* lines 272-274 with im what processOneImage(i) gave
SetStep(i, j, k, imSize, buf, log, im) ==
    IF im.raised # "none"
    THEN [raised |-> im.raised, conRoi |-> im.conRoi, totSet |-> None, calls |-> log]
    ELSE SetLoop(i + 1, j, k, imSize, SetSlice(buf, j, k, im.totIm), im.conRoi, log)

\* SetLoop with the fault of never moving the slice j:k on
SetLoopSameSlice(i, j, k, imSize, buf, roi, log) ==
    IF i >= Len(settingAngles)
    THEN [raised |-> "none", conRoi |-> roi, totSet |-> buf, calls |-> log]
    ELSE SetStep(i, j, k, imSize, buf, Append(log, i), processOneImage(i, roi))

\* the for loop of processOneSet from image i on
SetLoop(i, j, k, imSize, buf, roi, log) ==
    IF i >= Len(settingAngles)
    THEN [raised |-> "none", conRoi |-> roi, totSet |-> buf, calls |-> log]
    ELSE SetStep(i, j + imSize, k + imSize, imSize, buf, Append(log, i),
                 processOneImage(i, roi))

\* lines 263-270 with first what processOneImage(0) gave
SetFirst(setSize, first, imSize) ==
    IF first.raised # "none"
    THEN [raised |-> first.raised, conRoi |-> first.conRoi, totSet |-> None,
          calls |-> <<0>>]
    ELSE SetLoop(1, 0, imSize, imSize,
                 SetSlice([n \in 1..(setSize * imSize) |-> ZeroRow], 0, imSize, first.totIm),
                 first.conRoi, <<0>>)

SetOfFirst(first) == SetFirst(Len(settingAngles), first, Len(first.totIm))

processOneSetResult(roi) == SetOfFirst(processOneImage(0, roi))

-----------------------------------------------------------------------------
(* The gridder (the C extension gridder.grid3d) is outside this source; it  *)
(* is modelled from its specification.  A volume of shape <<nx, ny, nz>> is *)
(* kept sparsely: a function on the cells <<i, j, k>> (0-based) that got a  *)
(* point, every other cell of the dense array holding 0.                    *)

\* floor((q - lo) / (hi - lo) * n); with hi = lo the quotient is 0/0 or
\* x/0 and its conversion to an index is undefined: undef is what comes out
BinIndex(q, lo, hi, n, undef) ==
    IF hi = lo THEN undef
    ELSE IF hi > lo THEN ((q - lo) * n) \div (hi - lo)
    ELSE ((lo - q) * n) \div (lo - hi)

CellOf(pt, xmin, xmax, nx, ymin, ymax, ny, zmin, zmax, nz, undef) ==
    << BinIndex(pt[1], xmin, xmax, nx, undef),
       BinIndex(pt[2], ymin, ymax, ny, undef),
       BinIndex(pt[3], zmin, zmax, nz, undef) >>

InGrid(c, nx, ny, nz) ==
    /\ 0 <= c[1] /\ c[1] < nx
    /\ 0 <= c[2] /\ c[2] < ny
    /\ 0 <= c[3] /\ c[3] < nz

RECURSIVE SumFrom(_, _, _)
\* acc += pts[i][4] for the points from the i-th on, in the order of the array
SumFrom(pts, i, acc) ==
    IF i > Len(pts) THEN acc ELSE SumFrom(pts, i + 1, FAdd(acc, pts[i][4]))

\* CellSum with the fault of storing each point instead of adding it
CellSumOverwrites(pts) == IF Len(pts) = 0 THEN F(0) ELSE pts[Len(pts)][4]

\* the intensity a cell ends with: its points are added to 0 one by one
CellSum(pts) == SumFrom(pts, 1, F(0))

\* the volumes and the out-of-bounds count, cell[i] being the cell of point i
Volumes(data, cell, inside) ==
    [data |-> [c \in {cell[i] : i \in inside} |->
                 CellSum(SelectSeq([i \in 1..Len(data) |-> <<cell[i], i \in inside, 0, data[i][4]>>],
                                   LAMBDA e : e[2] /\ e[1] = c))],
     occu |-> [c \in {cell[i] : i \in inside} |->
                 Cardinality({i \in inside : cell[i] = c})],
     out  |-> Len(data) - Cardinality(inside)]

GridCells(data, cell, nx, ny, nz) ==
    Volumes(data, cell, {i \in 1..Len(data) : InGrid(cell[i], nx, ny, nz)})

grid3d(data, xmin, xmax, nx, ymin, ymax, ny, zmin, zmax, nz, undef) ==
    GridCells(data,
              [i \in 1..Len(data) |->
                  CellOf(data[i], xmin, xmax, nx, ymin, ymax, ny, zmin, zmax, nz, undef)],
              nx, ny, nz)

\* what an undefined index may come out as: below the grid, or bin 0
UndefIndex == {-1, 0}

-----------------------------------------------------------------------------
(* ImageProcessor.makeGridData *)

RECURSIVE ColMin(_, _)
ColMin(data, col) ==
    IF Len(data) = 1 THEN data[1][col]
    ELSE Min2(data[1][col], ColMin(Tail(data), col))

RECURSIVE ColMax(_, _)
ColMax(data, col) ==
    IF Len(data) = 1 THEN data[1][col]
    ELSE Max2(data[1][col], ColMax(Tail(data), col))

DefaultBins == 100

\* lines 284-289: the options the call grids with, which it also stores
GridQmin(data) == IF Qmin = None
                  THEN <<ColMin(data, 1), ColMin(data, 2), ColMin(data, 3)>>
                  ELSE Qmin
GridQmax(data) == IF Qmax = None
                  THEN <<ColMax(data, 1), ColMax(data, 2), ColMax(data, 3)>>
                  ELSE Qmax
GridN        == IF dQN = None THEN <<DefaultBins, DefaultBins, DefaultBins>> ELSE dQN

\* GridCall with the fault of handing Qmin[0] and Qmax[0] over in the wrong order
GridCallSwapped(data, qmin, qmax, n, undef) ==
    grid3d(data, qmax[1], qmin[1], n[1], qmin[2], qmax[2], n[2],
           qmin[3], qmax[3], n[3], undef)

\* line 297
GridCall(data, qmin, qmax, n, undef) ==
    grid3d(data, qmin[1], qmax[1], n[1], qmin[2], qmax[2], n[2],
           qmin[3], qmax[3], n[3], undef)


-----------------------------------------------------------------------------
(* ImageProcessor: construction and set part *)

\* a call that returns None and is neither of the process methods
ReturnsNone ==
    /\ raised' = "none"
    /\ calls' = <<>>
    /\ totSet' = None
    /\ totData' = None
    /\ gridData' = None /\ gridOccu' = None /\ gridOut' = 0

RECURSIVE Gcd(_, _)
Gcd(a, b) == IF b = 0 THEN a ELSE Gcd(b, a % b)

\* the ratio n/d in lowest terms
Ratio(n, d) == <<n \div Gcd(n, d), d \div Gcd(n, d)>>

Init ==
    /\ detDis = DefaultDetDis
    /\ detPixSizeX = DefaultPixSize
    /\ detPixSizeY = DefaultPixSize
    /\ detSizeX = DefaultSizeX
    /\ detSizeY = DefaultSizeY
    /\ detX0 = Ratio(DefaultSizeX, 2)
    /\ detY0 = Ratio(DefaultSizeY, 2)
    /\ conRoi = None
    /\ frameMode = 1
    /\ Qmin = None /\ Qmax = None /\ dQN = None
    /\ waveLen = None /\ imFileNames = None /\ darkFileNames = None
    /\ settingAngles = None /\ intentNorm = None
    /\ op = <<"__init__">>
    /\ raised = "none"
    /\ calls = <<>>
    /\ totSet = None
    /\ totData = None
    /\ gridData = None /\ gridOccu = None /\ gridOut = 0
    /\ supplied = <<FALSE, FALSE>>

\* the pixel size may not grow past MaxPitch micrometres in the model
MaxPitch == 2000

\* detSizeX, binX are ints and / is Python 2's floor division; detX0 is a float
setBins(binX, binY) ==
    /\ detPixSizeX * binX * binY <= MaxPitch
    /\ detPixSizeX' = (detPixSizeX * binX) * binY
    /\ detPixSizeY' = detPixSizeY
    /\ detSizeX' = detSizeX \div binX
    /\ detSizeY' = detSizeY \div binY
    /\ detX0' = Ratio(detX0[1], detX0[2] * binX)
    /\ detY0' = Ratio(detY0[1], detY0[2] * binY)
    /\ op' = <<"setBins", binX, binY>>
    /\ ReturnsNone
    /\ UNCHANGED <<detDis, conRoi, frameMode, gridVars, scanVars, supplied>>

setBySpec(conScan) ==
    /\ imFileNames = None       \* one scan per processor
    /\ waveLen' = conScan.wavelength
    /\ imFileNames' = conScan.ims
    /\ darkFileNames' = conScan.darks
    /\ settingAngles' = conScan.angles
    /\ intentNorm' = conScan.Ring
    /\ op' = <<"setBySpec">>
    /\ ReturnsNone
    /\ UNCHANGED <<detVars, conRoi, frameMode, gridVars, supplied>>

setConRoi(roi) ==
    /\ conRoi' = roi
    /\ op' = <<"setConRoi">>
    /\ ReturnsNone
    /\ UNCHANGED <<detVars, frameMode, gridVars, scanVars, supplied>>

setFrameMode(mode) ==
    /\ frameMode' = mode
    /\ op' = <<"setFrameMode">>
    /\ ReturnsNone
    /\ UNCHANGED <<detVars, conRoi, gridVars, scanVars, supplied>>

setGridOptions(qmin, qmax, n) ==
    /\ Qmin' = qmin
    /\ Qmax' = qmax
    /\ dQN' = n
    /\ supplied' = << supplied[1] \/ qmin # None \/ qmax # None,
                      supplied[2] \/ n # None >>
    /\ op' = <<"setGridOptions">>
    /\ ReturnsNone
    /\ UNCHANGED <<detVars, conRoi, frameMode, scanVars>>

-----------------------------------------------------------------------------
(* ImageProcessor: the process methods as actions *)

\* what a process method leaves behind
ImageReturns(r) ==
    /\ conRoi' = r.conRoi
    /\ totSet' = r.totIm
    /\ raised' = r.raised

SetReturns(r) ==
    /\ conRoi' = r.conRoi
    /\ totSet' = r.totSet
    /\ raised' = r.raised
    /\ calls' = r.calls

GridReturns(qmin, qmax, n, g) ==
    /\ Qmin' = qmin
    /\ Qmax' = qmax
    /\ dQN' = n
    /\ gridData' = g.data
    /\ gridOccu' = g.occu
    /\ gridOut' = g.out

GridWith(data, qmin, qmax, n, undef) ==
    GridReturns(qmin, qmax, n, GridCall(data, qmin, qmax, n, undef))

\* is the index of some axis undefined
Degenerate(qmin, qmax) == \E a \in 1..3 : qmin[a] = qmax[a]

processOneImageCall(imNum) ==
    /\ imFileNames # None
    /\ imNum + 1 \in DOMAIN settingAngles
    /\ ImageReturns(processOneImage(imNum, conRoi))
    /\ calls' = <<imNum>>
    /\ op' = <<"processOneImage", imNum>>
    /\ totData' = None /\ gridData' = None /\ gridOccu' = None /\ gridOut' = 0
    /\ UNCHANGED <<detVars, frameMode, gridVars, scanVars, supplied>>

processOneSet ==
    /\ imFileNames # None
    /\ SetReturns(processOneSetResult(conRoi))
    /\ op' = <<"processOneSet">>
    /\ totData' = None /\ gridData' = None /\ gridOccu' = None /\ gridOut' = 0
    /\ UNCHANGED <<detVars, frameMode, gridVars, scanVars, supplied>>

makeGridData(data) ==
    /\ Len(data) >= 1
    /\ \E undef \in UndefIndex :
          /\ (~Degenerate(GridQmin(data), GridQmax(data))) => undef = -1
          /\ GridWith(data, GridQmin(data), GridQmax(data), GridN, undef)
    /\ totData' = data
    /\ op' = <<"makeGridData">>
    /\ raised' = "none"
    /\ calls' = <<>>
    /\ totSet' = None
    /\ UNCHANGED <<detVars, conRoi, frameMode, scanVars, supplied>>

-----------------------------------------------------------------------------
(* Inputs *)

ConstFrame(h, w, c) == [r \in 1..h |-> [k \in 1..w |-> c]]
\* a frame whose neighbouring pixels differ: counts 0, 1, 2, ... row by row
RampFrame(h, w) == [r \in 1..h |-> [k \in 1..w |-> ((r - 1) * w + k - 1) % Pow2(Precision)]]

\* one row of six angles per exposure: <<delta, theta, chi, phi, mu, gamma>>;
\* a theta scan, theta = 0, 1, ...
ThetaScan(n) == [i \in 1..n |-> <<0, i - 1, 0, 0, 0, 0>>]

\* the monitor counts of n exposures; entry 1 is also the dark frame's
Rings(n) == { [i \in 1..n |-> 1], [i \in 1..n |-> 2],
              [i \in 1..n |-> IF i = 1 THEN 1 ELSE 2],
              [i \in 1..n |-> IF i = 1 THEN 2 ELSE 1],
              [i \in 1..n |-> IF i = 1 THEN 0 ELSE 1],
              [i \in 1..n |-> IF i = n THEN 0 ELSE 1] }

\* the frames of n exposures: all a, all b, or a and b in turn
Frames(n, a, b) == { [i \in 1..n |-> a], [i \in 1..n |-> b],
                     [i \in 1..n |-> IF i % 2 = 1 THEN a ELSE b] }

Scans(a, b, darkFrames) ==
    UNION { { [wavelength |-> 1, ims |-> ims, darks |-> <<dark>>,
               angles |-> ThetaScan(n), Ring |-> ring] :
                 ims \in Frames(n, a, b), dark \in darkFrames,
                 ring \in Rings(n) } : n \in 1..MaxExposures }

Modes    == 0..5
\* regions of interest: inside a 2 x 3 frame but for the last, which is
\* wider than it
Rois == { None, <<1, 3, 1, 2>>, <<2, 2, 1, 2>>, <<1, 2, 2, 1>>, <<2, 3, 1, 2>> }

ImageScans ==
    Scans(RampFrame(2, 3), ConstFrame(2, 3, MaxCount),
          {ConstFrame(2, 3, 0), RampFrame(2, 3)})

\* the points of the clouds handed to makeGridData directly
GridPoints == { <<0, 0, 0, F(1)>>, <<0, 0, 0, F(Pow2(Precision))>>, <<2, 1, 1, F(2)>> }
Clouds == UNION { [1..n -> GridPoints] : n \in 1..MaxPoints }

GridOptions == { <<None, None, None>>,
                 << <<0, 0, 0>>, <<2, 2, 2>>, <<2, 2, 2>> >>,
                 << <<0, 0, 0>>, <<3, 3, 3>>, <<1, 2, 2>> >>,
                 << <<1, 1, 0>>, <<3, 3, 1>>, None >> }

\* the synthetic 4 x 4 detector of the end-to-end scenario
E2EScans ==
    Scans(ConstFrame(4, 4, 1), RampFrame(4, 4), {ConstFrame(4, 4, 0), ConstFrame(4, 4, 1)})
E2ERois == { None, <<2, 2, 2, 3>> }
E2EGridOptions == { <<None, None, None>>,
                    << <<0, 0, 0>>, <<3, 3, 0>>, <<4, 4, 1>> >>,
                    << <<1, 1, 0>>, <<5, 5, 1>>, <<4, 4, 1>> >> }

-----------------------------------------------------------------------------
(* Specifications *)

\* the detector set-up
NextBins == \E binX \in 1..MaxBin, binY \in 1..MaxBin : setBins(binX, binY)
SpecBins == Init /\ [][NextBins]_vars

\* images to points
NextImage ==
    \/ \E conScan \in ImageScans : setBySpec(conScan)
    \/ \E roi \in Rois : setConRoi(roi)
    \/ \E mode \in Modes : setFrameMode(mode)
    \/ \E imNum \in 0..(MaxExposures - 1) : processOneImageCall(imNum)
    \/ processOneSet
SpecImage == Init /\ [][NextImage]_vars

\* points to a grid
NextGrid ==
    \/ \E o \in GridOptions : setGridOptions(o[1], o[2], o[3])
    \/ \E data \in Clouds : makeGridData(data)
SpecGrid == Init /\ [][NextGrid]_vars


\* images to points to a grid: the cloud processOneSet returned is gridded
NextE2E ==
    \/ \E conScan \in E2EScans : setBySpec(conScan)
    \/ \E roi \in E2ERois : setConRoi(roi)
    \/ \E mode \in {1, 3} : setFrameMode(mode)
    \/ \E o \in E2EGridOptions : setGridOptions(o[1], o[2], o[3])
    \/ processOneSet
    \/ op[1] = "processOneSet" /\ raised = "none" /\ makeGridData(totSet)
SpecE2E == Init /\ [][NextE2E]_vars


-----------------------------------------------------------------------------
(* Properties of the gridding, checked under SpecGrid *)

\* the state right after makeGridData gridded with a proper cuboid
GridDefined ==
    /\ op[1] = "makeGridData"
    /\ \A a \in 1..3 : Qmin[a] < Qmax[a] /\ dQN[a] >= 1

\* bin c of n between lo and hi holds q: c <= (q - lo) / (hi - lo) * n < c + 1
InBin(q, lo, hi, n, c) ==
    /\ c * (hi - lo) <= (q - lo) * n
    /\ (q - lo) * n < (c + 1) * (hi - lo)

PointInCell(pt, c) == \A a \in 1..3 : InBin(pt[a], Qmin[a], Qmax[a], dQN[a], c[a])
PointOutside(pt) ==
    \E a \in 1..3 : ~ \E k \in 0..(dQN[a] - 1) : InBin(pt[a], Qmin[a], Qmax[a], dQN[a], k)
PointsIn(c) == { i \in 1..Len(totData) : PointInCell(totData[i], c) }
OutPoints   == { i \in 1..Len(totData) : PointOutside(totData[i]) }

RECURSIVE SumOccu(_)
SumOccu(cells) ==
    IF cells = {} THEN 0
    ELSE LET c == CHOOSE x \in cells : TRUE
         IN  gridOccu[c] + SumOccu(cells \ {c})

RECURSIVE AddInOrder(_, _, _)
\* the intensities of the points of cell c from the i-th on, added to acc
AddInOrder(c, i, acc) ==
    IF i > Len(totData) THEN acc
    ELSE AddInOrder(c, i + 1,
                    IF i \in PointsIn(c) THEN FAdd(acc, totData[i][4]) ELSE acc)

\* C1: every point of the cloud is counted exactly once: a point whose index
\* floor((Q - Qmin) / (Qmax - Qmin) * N) is outside [0, N) on some axis adds
\* one to the out-of-bounds count and nothing else, any other point adds its
\* intensity and an occupancy of 1 to the cell at its indices; a point at
\* Qmin on every axis is in bin 0 of every axis, a point at Qmax on an axis
\* is out of bounds, and occupancies and out-of-bounds count add up to the
\* number of points.
C1_CountedOnce ==
    GridDefined =>
      /\ gridOut = Cardinality(OutPoints)
      /\ DOMAIN gridData = DOMAIN gridOccu
      /\ \A c \in DOMAIN gridOccu :
            /\ InGrid(c, dQN[1], dQN[2], dQN[3])
            /\ gridOccu[c] >= 1
            /\ gridOccu[c] = Cardinality(PointsIn(c))
            /\ gridData[c] = AddInOrder(c, 1, F(0))
      /\ \A i \in 1..Len(totData) :
            /\ (i \in OutPoints) # (\E c \in DOMAIN gridOccu : i \in PointsIn(c))
            /\ (\A a \in 1..3 : totData[i][a] = Qmin[a])
                  => <<0, 0, 0>> \in DOMAIN gridOccu /\ i \in PointsIn(<<0, 0, 0>>)
            /\ (\E a \in 1..3 : totData[i][a] = Qmax[a]) => i \in OutPoints
      /\ SumOccu(DOMAIN gridOccu) + gridOut = Len(totData)

\* a cloud with a point at Qmin, a point at Qmax on an axis and a cell that
\* got two points has been gridded
C1_Witness ==
    /\ GridDefined
    /\ \E i \in 1..Len(totData) : \A a \in 1..3 : totData[i][a] = Qmin[a]
    /\ \E i \in 1..Len(totData) : \E a \in 1..3 : totData[i][a] = Qmax[a]
    /\ gridOut >= 1
    /\ \E c \in DOMAIN gridOccu : gridOccu[c] >= 2

\* C3: on a processor whose user never supplied Qmin or Qmax, every
\* makeGridData call grids with the per-axis minimum and maximum of the
\* cloud passed to that call, and with 100 bins per axis when the user
\* never supplied bin counts.
C3_DefaultBounds ==
    (op[1] = "makeGridData" /\ ~supplied[1]) =>
      /\ Qmin = <<ColMin(totData, 1), ColMin(totData, 2), ColMin(totData, 3)>>
      /\ Qmax = <<ColMax(totData, 1), ColMax(totData, 2), ColMax(totData, 3)>>
      /\ ~supplied[2] => dQN = <<100, 100, 100>>

\* the orders a cloud can come in
PermsOf(data) ==
    { [i \in 1..Len(data) |-> data[f[i]]] : f \in Permutations(1..Len(data)) }

Returned == [data |-> gridData, occu |-> gridOccu, out |-> gridOut]

RECURSIVE SumAbs(_, _)
SumAbs(data, i) ==
    IF i > Len(data) THEN 0 ELSE Abs(data[i][4][2]) + SumAbs(data, i + 1)

\* no sum of intensities of the cloud needs rounding
ExactCloud(data) ==
    /\ \A i \in 1..Len(data) : IsFin(data[i][4])
    /\ SumAbs(data, 1) <= Pow2(Precision)

-----------------------------------------------------------------------------
(* Properties of the image processing, checked under SpecImage *)

Processed == op[1] \in {"processOneImage", "processOneSet"}

\* the region of interest lies in the frame
Inside(roi, frame) ==
    /\ 1 <= roi[1] /\ roi[1] + roi[2] - 1 <= Len(frame[1])
    /\ 1 <= roi[3] /\ roi[3] + roi[4] - 1 <= Len(frame)

\* C4: processOneSet calls processOneImage once for each exposure 0 .. n-1,
\* in this order, and returns n * p points, the points i*p .. (i+1)*p - 1
\* being what processOneImage(i) returned, in its order.
C4_SetConcatenates ==
    (op[1] = "processOneSet" /\ raised = "none") =>
       LET n == Len(settingAngles)
           p == Len(processOneImage(0, conRoi).totIm)
       IN  /\ calls = [i \in 1..n |-> i - 1]
           /\ Len(totSet) = n * p
           /\ \A i \in 0..(n - 1) :
                 /\ processOneImage(i, conRoi).raised = "none"
                 /\ SubSeq(totSet, i * p + 1, (i + 1) * p) = processOneImage(i, conRoi).totIm

\* a set of MaxExposures different exposures of several pixels was processed
C4_Witness ==
    /\ op[1] = "processOneSet" /\ raised = "none"
    /\ Len(settingAngles) = MaxExposures
    /\ Len(totSet) >= 2 * MaxExposures
    /\ \E i, j \in 1..Len(totSet) : totSet[i][4] # totSet[j][4]
    /\ imFileNames[1] # imFileNames[2]

\* C6: with a frame mode other than 1, 2, 3, 4 processOneImage, and so
\* processOneSet, ends in an error that reaches the caller: nothing is
\* returned and no later exposure is processed.
C6_UnknownModeRaises ==
    (Processed /\ frameMode \notin {1, 2, 3, 4}) =>
       /\ raised # "none"
       /\ totSet = None
       /\ Len(calls) = 1

\* a set of several exposures was processed in an unknown frame mode
C6_Witness ==
    /\ op[1] = "processOneSet"
    /\ frameMode \notin {1, 2, 3, 4}
    /\ Len(settingAngles) >= 2
    /\ raised = "UnboundLocalError"

\* C7: when the monitor of an exposure that is corrected, or the monitor of
\* the dark frame (entry 0), is zero, the correction aborts with an error and
\* returns nothing, so that no point of the exposure reaches the cloud.
C7_ZeroMonitorAborts ==
    (/\ Processed
     /\ \/ intentNorm[1] = 0
        \/ \E k \in 1..Len(calls) : intentNorm[calls[k] + 1] = 0)
       => raised # "none" /\ totSet = None

\* C8: the corrected intensity of every pixel of the region of interest of
\* exposure i is data_i / monitor[i] - dark / monitor[0], dark being the
\* first dark frame whatever i is; it is not clipped, and it is the raw
\* count where the dark frame is zero and both monitors are 1.
C8_CorrectedIntensity ==
    (Processed /\ raised = "none") =>
       \A k \in 1..Len(calls) : \A r \in 1..conRoi[4] : \A c \in 1..conRoi[2] :
          LET imNum == calls[k]
              corr  == totSet[(k - 1) * conRoi[2] * conRoi[4] + (r - 1) * conRoi[2] + c][4]
              data  == imFileNames[imNum + 1][conRoi[3] - 1 + r][conRoi[1] - 1 + c]
              dark  == darkFileNames[1][conRoi[3] - 1 + r][conRoi[1] - 1 + c]
          IN  /\ corr = FSub(FDiv(FromInt(data), intentNorm[imNum + 1]),
                             FDiv(FromInt(dark), intentNorm[1]))
              /\ (dark = 0 /\ intentNorm[1] = 1 /\ intentNorm[imNum + 1] = 1)
                    => corr = FromInt(data)
              /\ (intentNorm[1] = 1 /\ intentNorm[imNum + 1] = 1 /\ data < dark)
                    => IsFin(corr) /\ corr[2] < 0

\* an exposure other than the first, with a monitor other than entry 0, came
\* out with a negative intensity
C8_Witness ==
    /\ Processed /\ raised = "none"
    /\ \E k \in 1..Len(calls) :
          /\ calls[k] > 0
          /\ intentNorm[calls[k] + 1] # intentNorm[1]
          /\ intentNorm[calls[k] + 1] # 0
    /\ \E i \in 1..Len(totSet) : IsFin(totSet[i][4]) /\ totSet[i][4][2] < 0

-----------------------------------------------------------------------------
(* The end-to-end scenario, checked under SpecE2E *)

\* a 4 x 4 frame of ones, a dark frame of zeros, monitors 1, one exposure,
\* the whole frame as region of interest
E2EScenario ==
    /\ imFileNames = <<ConstFrame(4, 4, 1)>>
    /\ darkFileNames = <<ConstFrame(4, 4, 0)>>
    /\ intentNorm = <<1>>
    /\ conRoi = <<1, 4, 1, 4>>

\* 16 points of intensity 1 whose Q is the pixel's (x, y, 0)
E2ECloud(data) ==
    /\ Len(data) = 16
    /\ \A x \in 1..4 : \A y \in 1..4 : data[(y - 1) * 4 + x] = <<x, y, 0, FromInt(1)>>

E2EPoints == (E2EScenario /\ op[1] = "processOneSet") => raised = "none" /\ E2ECloud(totSet)

\* every one of the 16 cells got one point and no point is out of bounds
E2EFull ==
    /\ \A i \in 0..3 : \A j \in 0..3 :
          <<i, j, 0>> \in DOMAIN gridOccu /\ gridOccu[<<i, j, 0>>] = 1
    /\ gridOut = 0

E2EGridded(qmin, qmax, n) ==
    /\ E2EScenario /\ op[1] = "makeGridData" /\ E2ECloud(totData)
    /\ Qmin = qmin /\ Qmax = qmax /\ dQN = n

\* C2 as stated: the scenario yields the 16 points, and gridding them with
\* Qmin = [0,0,0], Qmax = [3,3,0], bins = [4,4,1] gives an occupancy of 1 in
\* each of the 16 cells and no point out of bounds.
C2_EndToEnd ==
    /\ E2EPoints
    /\ E2EGridded(<<0, 0, 0>>, <<3, 3, 0>>, <<4, 4, 1>>) => E2EFull

\* C2 as amended: the scenario yields the 16 points, x and y running from 1
\* to 4, and gridding them with Qmin = [1,1,0], Qmax = [5,5,1],
\* bins = [4,4,1] gives an occupancy of 1 in each of the 16 cells and no
\* point out of bounds.
C2_EndToEndOneBased ==
    /\ E2EPoints
    /\ E2EGridded(<<1, 1, 0>>, <<5, 5, 1>>, <<4, 4, 1>>) => E2EFull

C2_Witness == E2EGridded(<<1, 1, 0>>, <<5, 5, 1>>, <<4, 4, 1>>) /\ raised = "none"

-----------------------------------------------------------------------------
(* The detector set-up, checked under SpecBins *)

\* C10: every setBins(binX, binY) multiplies the pixel size in x by binX and
\* in y by binY and divides the detector size and centre in x by binX and in
\* y by binY.
C10_SetBinsScales ==
    [][op'[1] = "setBins" =>
         /\ detPixSizeX' = detPixSizeX * op'[2]
         /\ detPixSizeY' = detPixSizeY * op'[3]
         /\ detSizeX' = detSizeX \div op'[2]
         /\ detSizeY' = detSizeY \div op'[3]
         /\ detX0'[1] * detX0[2] * op'[2] = detX0[1] * detX0'[2]
         /\ detY0'[1] * detY0[2] * op'[3] = detY0[1] * detY0'[2]]_vars

=============================================================================
